---- MODULE Spec2Model ----
(***************************************************************************)
(* Human-in-loop workflow system: the step-sequencing engines              *)
(* (WorkflowEngine in workflow_engine.py, AutomatedWorkflowEngine in       *)
(* main.py), the approval gate (ApprovalManager / approval_events) and the *)
(* RollbackEngine, over the Store (DatabaseManager).                       *)
(*                                                                         *)
(* Concurrency is asyncio's: a coroutine runs without interruption from    *)
(* one suspension point (asyncio.sleep, wait_for on an Event, a task       *)
(* handler that sleeps) to the next, so every action below is one such     *)
(* uninterrupted stretch of a coroutine, or one whole API call.            *)
(*                                                                         *)
(* The sequential code is written as state transformers on a record S of   *)
(* all the variables; S.exc is "an exception is propagating", and a        *)
(* transformer applied to a state with S.exc set does nothing, which is    *)
(* how the statements after a raise are skipped.                           *)
(***************************************************************************)
EXTENDS Integers, Sequences, FiniteSets, TLC

\* ------------------------------------------------------------------ bounds
\* steps of a workflow
MaxSteps == 3
\* tasks started by the caller
MaxStarts == 2
\* API calls (start, submit a decision, trigger a rollback) made by the caller
MaxCalls == 2
\* step executions that the started tasks of a workflow may have before them
MaxWork == 4
\* retry_count of the steps of a stored workflow that have been retried
MaxInitRetry == 2
\* entries of metadata.original_data given to a task handler
MaxFields == 2

\* --------------------------------------------------------------- constants
MaxRetries == 3

WorkflowIds == {"w1", "w2"}
Engines == {"WorkflowEngine", "AutomatedWorkflowEngine"}
\* "DatabaseManager": the Store of the repository.  "Contract": a Store that
\* honours the documented contract of saveWorkflow (upsert); the engines take
\* the Store as a constructor argument.
Stores == {"DatabaseManager", "Contract"}

NoRecord == [absent |-> TRUE]
NoJob == [action_type |-> "", original_data |-> <<>>]
NoOutcome == [by |-> "none"]
IsRow(r) == ~r.absent

VARIABLES
    engine,     \* which engine the process runs
    store,      \* which Store the engine was constructed with
    steps,      \* WorkflowIds -> the step definitions of the created workflow
    valid,      \* WorkflowIds -> metadata.original_data has no empty value
    db,         \* workflows table: WorkflowIds -> row or NoRecord
    reqs,       \* approval_requests table, indexed by request id 1..Len
    resps,      \* approval_responses table, in insertion order
    pending,    \* keys of pending_approvals / approval_events
    evt,        \* per request id: its asyncio.Event is set
    due,        \* per request id: its timeout has elapsed
    tasks,      \* the asyncio tasks created by start, in creation order
    active,     \* active_workflows: WorkflowIds -> task id, 0 if no key
    rollbacks,  \* WorkflowIds -> number of execute_rollback invocations
    failed,     \* WorkflowIds -> number of times FAILED was persisted
    calls,      \* number of API calls made so far
    job,        \* a call of TaskProcessor.execute_task taken by itself: its
                \*   action type and the values of metadata.original_data
    outcome,    \* what that call returned, and the handler that made it
    last        \* the latest API call: its operation, its argument, what it
                \*   returned, and (for a decision) whether the request was
                \*   resolved and whether its wait had timed out when it came

vars == <<engine, store, steps, valid, db, reqs, resps, pending, evt, due, tasks,
          active, rollbacks, failed, calls, job, outcome, last>>

Cur ==
    [engine |-> engine, store |-> store, steps |-> steps, valid |-> valid,
     db |-> db, reqs |-> reqs, resps |-> resps, pending |-> pending,
     evt |-> evt, due |-> due,
     tasks |-> tasks, active |-> active, rollbacks |-> rollbacks,
     failed |-> failed, calls |-> calls, last |-> last,
     exc |-> FALSE, nf |-> FALSE]

\* the state in which a stretch begins; nf: the NotificationService raises
\* when the stretch calls it
Notifier(nf) == [Cur EXCEPT !.nf = nf]

Commit(S) ==
    /\ engine' = S.engine
    /\ store' = S.store
    /\ steps' = S.steps
    /\ valid' = S.valid
    /\ db' = S.db
    /\ reqs' = S.reqs
    /\ resps' = S.resps
    /\ pending' = S.pending
    /\ evt' = S.evt
    /\ due' = S.due
    /\ tasks' = S.tasks
    /\ active' = S.active
    /\ rollbacks' = S.rollbacks
    /\ failed' = S.failed
    /\ calls' = S.calls
    /\ last' = S.last
    /\ UNCHANGED <<job, outcome>>

\* ----------------------------------------------------------------- helpers
Call(op, wid, req, result, resolved, late) ==
    [op |-> op, wid |-> wid, req |-> req, result |-> result,
     resolved |-> resolved, late |-> late]

Returned(S, op, w, result) ==
    [S EXCEPT !.exc = FALSE, !.last = Call(op, w, 0, result, FALSE, FALSE)]

\* the request is no longer pending
Resolved(S, r) == r \in DOMAIN S.reqs /\ S.reqs[r].status # "pending"

\* the wait on the request ended by timeout and its task has moved on
TimedOut(S, r) ==
    /\ r \in DOMAIN S.reqs
    /\ S.due[r]
    /\ ~S.evt[r] \/ S.reqs[r].status = "timeout"
    /\ \A t \in DOMAIN S.tasks :
          ~(S.tasks[t].pc = "wait" /\ S.tasks[t].req = r)

Decided(S, r, result) ==
    [S EXCEPT !.last = Call("submit", "", r, result,
                            Resolved(S, r), TimedOut(S, r))]

Event(type, step) == [event_type |-> type, step |-> step]

Terminal == {"completed", "failed", "rolled_back", "cancelled"}

\* try: ... except Exception: handler
Catch(S, Handler(_)) ==
    IF S.exc THEN Handler([S EXCEPT !.exc = FALSE]) ELSE S

Raise(S) == [S EXCEPT !.exc = TRUE]

SetTask(S, t, f, v) == [S EXCEPT !.tasks[t][f] = v]

\* ------------------------------------------------------------------- Store
get_workflow(S, w) == S.db[w]

\* DatabaseManager.save_workflow: a plain INSERT on a table whose id is the
\* primary key; on an existing id it raises and leaves the row as it was.
\* (main.py's save_workflow raises on a row read back from the table too.)
save_workflow(S, w, row) ==
    IF S.exc THEN S
    ELSE IF IsRow(S.db[w]) THEN Raise(S)
    ELSE [S EXCEPT !.db[w] = row]

\* The Store contract's saveWorkflow: atomic upsert of the full record.
saveWorkflow(S, w, row) ==
    IF S.exc THEN S ELSE [S EXCEPT !.db[w] = row]

\* self.db.save_workflow(...) on the Store the engine was constructed with.
db_save_workflow(S, w, row) ==
    IF S.store = "Contract" THEN saveWorkflow(S, w, row)
    ELSE save_workflow(S, w, row)

\* update_workflow_status had its UPDATE no WHERE clause
update_workflow_status_all_rows(S, w, status, step) ==
    IF S.exc \/ ~IsRow(S.db[w]) THEN S
    ELSE [S EXCEPT
            !.db = [x \in DOMAIN S.db |->
                      IF IsRow(S.db[x])
                      THEN [S.db[x] EXCEPT
                              !.status = status,
                              !.current_step = IF step >= 0 THEN step ELSE @]
                      ELSE S.db[x]],
            !.failed[w] = @ + (IF status = "failed" THEN 1 ELSE 0)]

\* DatabaseManager.update_workflow_status: UPDATE ... WHERE id = ?;
\* step = -1 stands for current_step = None (the column is left alone).
update_workflow_status(S, w, status, step) ==
    IF S.exc \/ ~IsRow(S.db[w]) THEN S
    ELSE [S EXCEPT !.db[w].status = status,
                   !.db[w].current_step = IF step >= 0 THEN step ELSE @,
                   !.failed[w] = @ + (IF status = "failed" THEN 1 ELSE 0)]

\* _log_event had it saved a log holding the new event alone
log_event_overwriting(S, w, type, step) ==
    IF S.exc \/ ~IsRow(get_workflow(S, w)) THEN S
    ELSE LET row == get_workflow(S, w)
         IN  db_save_workflow(S, w,
                 [row EXCEPT !.execution_log = <<Event(type, step)>>])

\* _log_event / _log_compensation_action: read the row, append, save it.
log_event(S, w, type, step) ==
    IF S.exc \/ ~IsRow(get_workflow(S, w)) THEN S
    ELSE LET row == get_workflow(S, w)
         IN  db_save_workflow(S, w,
                 [row EXCEPT !.execution_log = Append(@, Event(type, step))])

\* ------------------------------------------------------------ task helpers
Wid(S, t) == S.tasks[t].wid
StepOf(S, t) == S.steps[Wid(S, t)][S.tasks[t].current_step + 1]

\* A new asyncio task running on its own WorkflowInstance built from the row.
NewTask(w, row) ==
    [wid |-> w, pc |-> "ready", status |-> "running",
     current_step |-> row.current_step,
     retry |-> [i \in 1..Len(row.steps) |-> row.steps[i].retry_count],
     req |-> 0, retrying |-> FALSE, rb |-> 0 - 1, in_except |-> FALSE,
     rollback_data |-> FALSE, comps |-> <<>>]

\* TaskProcessor.execute_task(action_type, metadata)["success"]:
\* _validate_data fails on an empty value, every other handler succeeds.
execute_task(action_type, metadata_valid) ==
    IF action_type = "validate_data" THEN metadata_valid ELSE TRUE

\* --------------------------------------------------------- ApprovalManager
\* create_approval_request had it left the registration of the Event to the
\* waiter
create_approval_request_unregistered(S, t) ==
    IF S.exc THEN S
    ELSE LET id == Len(S.reqs) + 1
             S1 == [S EXCEPT
                      !.reqs = Append(@, [workflow_id |-> Wid(S, t),
                                          step |-> S.tasks[t].current_step,
                                          status |-> "pending"]),
                      !.evt = Append(@, FALSE),
                      !.due = Append(@, StepOf(S, t).timeout_minutes <= 0)]
         IN  IF S.nf THEN Raise(S1) ELSE SetTask(S1, t, "req", id)

\* create_approval_request: INSERT a pending row under a fresh id (no check
\* of the step's timeout_minutes, with which the caller then waits), register
\* an Event under that id, notify (a raise of the notification leaves the
\* call after the row and the Event are in place).
create_approval_request(S, t) ==
    IF S.exc THEN S
    ELSE LET id == Len(S.reqs) + 1
             S1 == [S EXCEPT
                      !.reqs = Append(@, [workflow_id |-> Wid(S, t),
                                          step |-> S.tasks[t].current_step,
                                          status |-> "pending"]),
                      !.evt = Append(@, FALSE),
                      !.due = Append(@, StepOf(S, t).timeout_minutes <= 0),
                      !.pending = @ \cup {id}]
         IN  IF S.nf THEN Raise(S1) ELSE SetTask(S1, t, "req", id)

\* submit_approval_response had it also written the decision into the
\* workflow's row
submit_approval_response_resuming(S, r, action) ==
    LET S1 == [S EXCEPT !.resps = Append(@, [request |-> r, action |-> action])]
        S2 == IF r \in DOMAIN S1.reqs
              THEN [S1 EXCEPT !.reqs[r].status = action,
                              !.db[S.reqs[r].workflow_id].status = action]
              ELSE S1
        S3 == IF r \in S2.pending
              THEN [S2 EXCEPT !.evt[r] = TRUE, !.pending = @ \ {r}] ELSE S2
    IN  [S3 EXCEPT !.last = Decided(S, r, "ok").last]

\* submit_approval_response: INSERT the response, UPDATE the request's
\* status, set and drop the Event if one is registered.
submit_approval_response(S, r, action) ==
    LET S1 == [S EXCEPT !.resps = Append(@, [request |-> r, action |-> action])]
        S2 == IF r \in DOMAIN S1.reqs
              THEN [S1 EXCEPT !.reqs[r].status = action] ELSE S1
        S3 == IF r \in S2.pending
              THEN [S2 EXCEPT !.evt[r] = TRUE, !.pending = @ \ {r}] ELSE S2
    IN  [S3 EXCEPT !.last = Decided(S, r, "ok").last]

\* ---------------------------------------------------------- RollbackEngine
CompensationEvent(action_type) ==
    CASE action_type = "process_data" -> "data_processing_rollback"
      [] action_type = "fraud_detection" -> "fraud_check_rollback"
      [] action_type = "deploy_system" -> "deployment_rollback"
      [] action_type = "validate_data" -> "validation_rollback"
      [] OTHER -> "generic_rollback"

\* One iteration of `for step_index in range(workflow.current_step, -1, -1)`
\* up to the sleep in _execute_compensation_action, or the statements after
\* the loop when the range is exhausted (S4: send_rollback_notification).
rollback_loop(S, t, k) ==
    IF S.exc THEN S
    ELSE LET w == Wid(S, t)
         IN  IF k >= 0
             THEN IF k + 1 > Len(S.steps[w]) THEN Raise(S)
                  ELSE LET S1 == [S EXCEPT !.tasks[t].comps = Append(@, k)]
                           S2 == log_event(S1, w,
                                   CompensationEvent(S.steps[w][k + 1].action_type), k)
                       IN  IF S2.exc THEN S2
                           ELSE SetTask(SetTask(S2, t, "rb", k - 1), t, "pc", "comp_sleep")
             ELSE LET S1 == SetTask(SetTask(S, t, "status", "rolled_back"),
                                    t, "rollback_data", TRUE)
                      S2 == update_workflow_status(S1, w, "rolled_back", 0 - 1)
                      S3 == log_event(S2, w, "rollback_completed", 0 - 1)
                      S4 == IF ~S3.exc /\ S3.nf THEN Raise(S3) ELSE S3
                  IN  IF S4.exc THEN S4 ELSE SetTask(S4, t, "pc", "rolled")

\* An iteration of the loop whose handler raises: the handler of index k is
\* called and the Store write of its _log_compensation_action fails.
compensation_raises(S, t, k) ==
    IF S.exc THEN S
    ELSE Raise([S EXCEPT !.tasks[t].comps = Append(@, k)])

\* except Exception as e: await self._log_rollback_failure(...)
log_rollback_failure(S, t) ==
    LET S1 == log_event(S, Wid(S, t), "rollback_failed", 0 - 1)
    IN  IF S1.exc THEN S1 ELSE SetTask(S1, t, "pc", "rolled")

\* A stretch of execute_rollback under its try/except.
rollback_try(S, t) == Catch(S, LAMBDA X : log_rollback_failure(X, t))

\* execute_rollback had it started below the step that failed
execute_rollback_completed_only(S, t) ==
    IF S.exc THEN S
    ELSE LET w == Wid(S, t)
             S1 == [S EXCEPT !.rollbacks[w] = @ + 1]
             S2 == log_event(S1, w, "rollback_started", 0 - 1)
         IN  rollback_try(rollback_loop(S2, t, S.tasks[t].current_step - 1), t)

\* execute_rollback up to its first suspension.
execute_rollback(S, t) ==
    IF S.exc THEN S
    ELSE LET w == Wid(S, t)
             S1 == [S EXCEPT !.rollbacks[w] = @ + 1]
             S2 == log_event(S1, w, "rollback_started", 0 - 1)
         IN  rollback_try(rollback_loop(S2, t, S.tasks[t].current_step), t)

\* ---------------------------------------------------------- WorkflowEngine
\* _handle_workflow_failure had it triggered the rollback before logging
\* workflow_failed
handle_workflow_failure_rollback_first(S, t) ==
    IF S.exc THEN S
    ELSE LET w == Wid(S, t)
             S1 == SetTask(S, t, "status", "failed")
             S2 == update_workflow_status(S1, w, "failed", 0 - 1)
             S3 == execute_rollback(S2, t)
         IN  log_event(S3, w, "workflow_failed", S.tasks[t].current_step)

\* _handle_workflow_failure
handle_workflow_failure(S, t) ==
    IF S.exc THEN S
    ELSE LET w == Wid(S, t)
             S1 == SetTask(S, t, "status", "failed")
             S2 == update_workflow_status(S1, w, "failed", 0 - 1)
             S3 == log_event(S2, w, "workflow_failed", S.tasks[t].current_step)
         IN  execute_rollback(S3, t)

\* _execute_workflow after the for loop (lines 65-73)
WE_after_loop(S, t) ==
    IF S.exc THEN S
    ELSE IF S.tasks[t].status = "running"
    THEN LET w == Wid(S, t)
             S1 == SetTask(S, t, "status", "completed")
             S2 == update_workflow_status(S1, w, "completed", 0 - 1)
             S3 == log_event(S2, w, "workflow_completed", 0 - 1)
         IN  IF S3.exc THEN S3 ELSE SetTask(S3, t, "pc", "done")
    ELSE SetTask(S, t, "pc", "done")

\* _execute_step up to its suspension: the approval request is created and
\* waited on, or the task handler is entered.  A raise of
\* create_approval_request is caught by the except of _execute_step, which
\* logs step_execution_error and returns False with no suspension
\* ("refused").
execute_step_begin(S, t) ==
    IF S.exc THEN S
    ELSE IF StepOf(S, t).requires_approval
    THEN LET S1 == create_approval_request(S, t)
         IN  IF S1.exc
             THEN SetTask(
                      Catch(S1, LAMBDA X :
                          log_event(X, Wid(S, t), "step_execution_error",
                                    S.tasks[t].current_step)),
                      t, "pc", "refused")
             ELSE SetTask(S1, t, "pc", "wait")
    ELSE SetTask(S, t, "pc", "exec")

\* _execute_step from its suspension to its return; ok is what the wait or
\* the handler gave.  A raise inside is logged as step_execution_error.
execute_step_end(S, t, ok, failure_event) ==
    IF S.exc THEN S
    ELSE LET w == Wid(S, t)
             i == S.tasks[t].current_step
             body == IF ok THEN S ELSE log_event(S, w, failure_event, i)
         IN  Catch(body, LAMBDA X : log_event(X, w, "step_execution_error", i))

\* One iteration of the for loop of _execute_workflow up to the suspension
\* inside _execute_step (lines 43-54), or the loop's exit.
WE_loop(S, t, i) ==
    IF S.exc THEN S
    ELSE LET w == Wid(S, t)
         IN  IF i >= Len(S.steps[w]) THEN WE_after_loop(S, t)
             ELSE LET S1 == SetTask(S, t, "current_step", i)
                      S2 == update_workflow_status(S1, w, S.tasks[t].status, i)
                      S3 == log_event(S2, w, "step_started", i)
                  IN  execute_step_begin(S3, t)

\* _handle_step_failure up to its sleep
handle_step_failure(S, t) ==
    IF S.exc THEN S
    ELSE LET w == Wid(S, t)
             i == S.tasks[t].current_step
             n == S.tasks[t].retry[i + 1] + 1
             S1 == [S EXCEPT !.tasks[t].retry[i + 1] = n]
         IN  IF n < MaxRetries
             THEN LET S2 == log_event(S1, w, "step_retry", i)
                  IN  IF S2.exc THEN S2 ELSE SetTask(S2, t, "pc", "retry_sleep")
             ELSE handle_workflow_failure(S1, t)

\* _execute_workflow had it gone on to the next step after
\* _handle_step_failure returned, instead of breaking out of the loop
step_returned_continuing(S, t, ok) ==
    IF S.exc THEN S
    ELSE IF S.tasks[t].retrying
    THEN WE_loop(SetTask(S, t, "retrying", FALSE), t,
                 S.tasks[t].current_step + 1)
    ELSE LET w == Wid(S, t)
             i == S.tasks[t].current_step
         IN  IF ok THEN WE_loop(log_event(S, w, "step_completed", i), t, i + 1)
             ELSE handle_step_failure(S, t)

\* What follows the return of _execute_step: inside _handle_step_failure
\* (line 142) the result is dropped and the caller breaks out of the loop;
\* in the loop (lines 54-63) a success logs step_completed and moves on, a
\* failure goes to _handle_step_failure and breaks.
step_returned(S, t, ok) ==
    IF S.exc THEN S
    ELSE IF S.tasks[t].retrying THEN WE_after_loop(S, t)
    ELSE LET w == Wid(S, t)
             i == S.tasks[t].current_step
         IN  IF ok THEN WE_loop(log_event(S, w, "step_completed", i), t, i + 1)
             ELSE handle_step_failure(S, t)

\* the except of _execute_step had it raised again after logging
step_refused_escaping(S, t) ==
    IF ~S.exc /\ S.tasks[t].pc = "refused" THEN Raise(S)
    ELSE S

\* _execute_step returned False before any suspension
step_refused(S, t) ==
    IF ~S.exc /\ S.tasks[t].pc = "refused" THEN step_returned(S, t, FALSE)
    ELSE S

\* The end of a stretch of the task: execute_rollback returning to its
\* caller, the except clause of _execute_workflow (line 75), and an
\* exception that leaves the task.
WE_stretch(S, t) ==
    LET S1 == IF ~S.exc /\ S.tasks[t].pc = "rolled" /\ ~S.tasks[t].in_except
              THEN WE_after_loop(S, t) ELSE S
        S2 == IF S1.exc /\ ~S1.tasks[t].in_except
              THEN handle_workflow_failure(
                       SetTask([S1 EXCEPT !.exc = FALSE], t, "in_except", TRUE), t)
              ELSE S1
        S3 == IF ~S2.exc /\ S2.tasks[t].pc = "rolled"
              THEN SetTask(S2, t, "pc", "done") ELSE S2
    IN  IF S3.exc THEN SetTask([S3 EXCEPT !.exc = FALSE], t, "pc", "crashed")
        ELSE S3

\* start_workflow had it registered the id before looking the row up
start_workflow_registering(S, w) ==
    LET row == get_workflow(S, w)
    IN  IF ~IsRow(row)
        THEN Returned([S EXCEPT !.active[w] = Len(S.tasks) + 1],
                      "start", w, "ValueError")
        ELSE LET S1 == update_workflow_status(S, w, "running", 0 - 1)
                 S2 == [S1 EXCEPT !.tasks = Append(@, NewTask(w, row)),
                                  !.active[w] = Len(S.tasks) + 1]
                 S3 == log_event(S2, w, "workflow_started", 0 - 1)
             IN  Returned(S3, "start", w, IF S3.exc THEN "error" ELSE "ok")

\* start_workflow
start_workflow(S, w) ==
    LET row == get_workflow(S, w)
    IN  IF ~IsRow(row) THEN Returned(S, "start", w, "ValueError")
        ELSE LET S1 == update_workflow_status(S, w, "running", 0 - 1)
                 S2 == [S1 EXCEPT !.tasks = Append(@, NewTask(w, row)),
                                  !.active[w] = Len(S.tasks) + 1]
                 S3 == log_event(S2, w, "workflow_started", 0 - 1)
             IN  Returned(S3, "start", w, IF S3.exc THEN "error" ELSE "ok")

\* asyncio.wait_for with a timeout <= 0 (the step's timeout_minutes): it
\* cancels the wait at once and raises TimeoutError whether or not the
\* Event is set in the meantime
Immediate(r) ==
    steps[reqs[r].workflow_id][reqs[r].step + 1].timeout_minutes <= 0

IsWE == engine = "WorkflowEngine"

WE_Start(w) ==
    /\ IsWE
    /\ calls < MaxCalls
    /\ Len(tasks) < MaxStarts
    /\ (Len(tasks) + 1) * Len(steps[w]) <= MaxWork
    /\ Commit(start_workflow([Cur EXCEPT !.calls = @ + 1], w))

\* the task created by start_workflow gets to run
WE_Run(t) ==
    /\ IsWE
    /\ tasks[t].pc = "ready"
    /\ \E nf \in BOOLEAN :
          Commit(WE_stretch(step_refused(WE_loop(Notifier(nf), t, 0), t), t))

\* task_processor.execute_task returns
WE_TaskDone(t) ==
    /\ IsWE
    /\ tasks[t].pc = "exec"
    /\ LET ok == execute_task(StepOf(Cur, t).action_type, valid[tasks[t].wid])
       IN  \E nf \in BOOLEAN :
               Commit(WE_stretch(step_refused(
                   step_returned(execute_step_end(Notifier(nf), t, ok, "task_failed"),
                                 t, ok), t), t))

\* wait_for_approval returns True: the Event was set
WE_Approved(t) ==
    /\ IsWE
    /\ tasks[t].pc = "wait"
    /\ evt[tasks[t].req]
    /\ ~Immediate(tasks[t].req)
    /\ \E nf \in BOOLEAN :
          Commit(WE_stretch(step_refused(
              step_returned(Notifier(nf), t, TRUE), t), t))

\* wait_for_approval returns False: asyncio.TimeoutError
WE_WaitTimeout(t) ==
    /\ IsWE
    /\ tasks[t].pc = "wait"
    /\ due[tasks[t].req]
    /\ ~evt[tasks[t].req] \/ Immediate(tasks[t].req)
    /\ Commit(WE_stretch(
           step_returned(execute_step_end(Cur, t, FALSE, "approval_timeout"),
                         t, FALSE), t))

\* asyncio.sleep(5) of _handle_step_failure is over: the step is run again
WE_Retry(t) ==
    /\ IsWE
    /\ tasks[t].pc = "retry_sleep"
    /\ \E nf \in BOOLEAN :
          Commit(WE_stretch(step_refused(
              execute_step_begin(SetTask(Notifier(nf), t, "retrying", TRUE), t),
              t), t))

\* asyncio.sleep(1) of _execute_compensation_action is over
WE_Compensate(t) ==
    /\ IsWE
    /\ tasks[t].pc = "comp_sleep"
    /\ \E nf \in BOOLEAN :
          Commit(WE_stretch(
              rollback_try(rollback_loop(Notifier(nf), t, tasks[t].rb), t), t))

\* asyncio.sleep(1) is over and the next compensation handler raises
WE_CompensateRaises(t) ==
    /\ IsWE
    /\ tasks[t].pc = "comp_sleep"
    /\ tasks[t].rb >= 0
    /\ Commit(WE_stretch(
           rollback_try(compensation_raises(Cur, t, tasks[t].rb), t), t))

\* ApprovalManager.submit_approval_response, called by the API layer
WE_Submit(r, action) ==
    /\ IsWE
    /\ calls < MaxCalls
    /\ Commit(submit_approval_response([Cur EXCEPT !.calls = @ + 1], r, action))

\* ------------------------------------------------- AutomatedWorkflowEngine
\* _execute_automated_task: every branch sleeps and returns True
execute_automated_task(action_type) == TRUE

\* _execute_workflow_steps after the for loop (lines 370-380)
AWE_after_loop(S, t) ==
    IF S.exc THEN S
    ELSE IF S.tasks[t].status = "running"
    THEN LET w == Wid(S, t)
             S1 == SetTask(S, t, "status", "completed")
             S2 == update_workflow_status(S1, w, "completed", 0 - 1)
             S3 == log_event(S2, w, "workflow_completed", 0 - 1)
         IN  IF S3.exc THEN S3 ELSE SetTask(S3, t, "pc", "done")
    ELSE SetTask(S, t, "pc", "done")

\* One iteration of the for loop up to its first sleep (lines 302-310), or
\* the loop's exit.
AWE_loop(S, t, i) ==
    IF S.exc THEN S
    ELSE LET w == Wid(S, t)
         IN  IF i >= Len(S.steps[w]) THEN AWE_after_loop(S, t)
             ELSE LET S1 == SetTask(S, t, "current_step", i)
                      S2 == update_workflow_status(S1, w, S.tasks[t].status, i)
                  IN  SetTask(S2, t, "pc", "delay")

\* After the sleep: an approval step persists AWAITING_APPROVAL, saves the
\* request, registers its Event and waits (lines 312-347); an automated
\* step enters its handler (line 357).
AWE_step_begin(S, t) ==
    IF S.exc THEN S
    ELSE IF StepOf(S, t).requires_approval
    THEN LET w == Wid(S, t)
             S1 == SetTask(S, t, "status", "awaiting_approval")
             S2 == update_workflow_status(S1, w, "awaiting_approval",
                                          S.tasks[t].current_step)
         IN  SetTask(create_approval_request(S2, t), t, "pc", "wait")
    ELSE SetTask(S, t, "pc", "exec")

\* lines 351-353 and 359-361: the step failed
AWE_step_failed(S, t) ==
    IF S.exc THEN S
    ELSE AWE_after_loop(
             update_workflow_status(SetTask(S, t, "status", "failed"),
                                    Wid(S, t), "failed", 0 - 1), t)

\* lines 363-368 and the next iteration
AWE_step_completed(S, t) ==
    IF S.exc THEN S
    ELSE LET i == S.tasks[t].current_step
         IN  AWE_loop(log_event(S, Wid(S, t), "step_completed", i), t, i + 1)

\* except Exception (lines 382-390)
AWE_except(S, t) ==
    LET w == Wid(S, t)
        S1 == SetTask(S, t, "status", "failed")
        S2 == update_workflow_status(S1, w, "failed", 0 - 1)
        S3 == log_event(S2, w, "workflow_failed", S.tasks[t].current_step)
    IN  IF S3.exc THEN S3 ELSE SetTask(S3, t, "pc", "done")

\* The end of a stretch of the task: the except clause, the finally clause
\* (lines 392-395) when the coroutine is left, and an escaping exception.
AWE_stretch(S, t) ==
    LET S1 == Catch(S, LAMBDA X : AWE_except(X, t))
        left == S1.exc \/ S1.tasks[t].pc = "done"
        S2 == IF left THEN [S1 EXCEPT !.active[Wid(S, t)] = 0] ELSE S1
    IN  IF S2.exc THEN SetTask([S2 EXCEPT !.exc = FALSE], t, "pc", "crashed")
        ELSE S2

\* _start_workflow_execution
start_workflow_execution(S, w) ==
    IF S.active[w] # 0 THEN S
    ELSE LET S1 == update_workflow_status(S, w, "running", 0 - 1)
         IN  [S1 EXCEPT !.tasks = Append(@, NewTask(w, get_workflow(S, w))),
                        !.active[w] = Len(S.tasks) + 1]

\* _process_pending_workflows: every row whose status is PENDING is started
RECURSIVE process_pending_workflows(_, _)
process_pending_workflows(S, ws) ==
    IF ws = {} THEN S
    ELSE LET w == CHOOSE x \in ws : TRUE
             S1 == IF IsRow(S.db[w]) /\ S.db[w].status = "pending"
                   THEN start_workflow_execution(S, w) ELSE S
         IN  process_pending_workflows(S1, ws \ {w})

\* _check_approval_timeouts: every pending request whose timeout_at is past
\* is marked timeout and its Event, if registered, is set.
check_approval_timeouts(S) ==
    LET hit == {r \in DOMAIN S.reqs : S.reqs[r].status = "pending" /\ S.due[r]}
    IN  [S EXCEPT
           !.reqs = [r \in DOMAIN S.reqs |->
                       IF r \in hit THEN [S.reqs[r] EXCEPT !.status = "timeout"]
                       ELSE S.reqs[r]],
           !.evt = [r \in DOMAIN S.evt |->
                       IF r \in hit /\ r \in S.pending THEN TRUE ELSE S.evt[r]]]

\* submit_approval_decision
submit_approval_decision(S, r, decision) ==
    IF r \in S.pending
    THEN [S EXCEPT !.evt[r] = TRUE, !.reqs[r].status = decision,
                   !.last = Decided(S, r, "ok").last]
    ELSE [S EXCEPT !.last = Decided(S, r, "false").last]

\* trigger_rollback (POST /api/workflows/{id}/rollback)
trigger_rollback(S, w) ==
    LET row == get_workflow(S, w)
    IN  IF ~IsRow(row) THEN Returned(S, "rollback", w, "404")
        ELSE LET S1 == db_save_workflow(S, w, [row EXCEPT !.status = "rolled_back"])
             IN  Returned(S1, "rollback", w, IF S1.exc THEN "error" ELSE "ok")

IsAWE == engine = "AutomatedWorkflowEngine"

\* one cycle of start_workflow_automation finds a PENDING workflow
AWE_ProcessPending ==
    /\ IsAWE
    /\ \E w \in WorkflowIds : IsRow(db[w]) /\ db[w].status = "pending"
    /\ Commit(process_pending_workflows(Cur, WorkflowIds))

\* the task created by _start_workflow_execution gets to run
AWE_Run(t) ==
    /\ IsAWE
    /\ tasks[t].pc = "ready"
    /\ Commit(AWE_stretch(AWE_loop(Cur, t, tasks[t].current_step), t))

\* the random delay before the step is over
AWE_StepBegin(t) ==
    /\ IsAWE
    /\ tasks[t].pc = "delay"
    /\ Commit(AWE_stretch(AWE_step_begin(Cur, t), t))

\* _execute_automated_task returns
AWE_TaskDone(t) ==
    /\ IsAWE
    /\ tasks[t].pc = "exec"
    /\ Commit(AWE_stretch(
           IF execute_automated_task(StepOf(Cur, t).action_type)
           THEN AWE_step_completed(Cur, t) ELSE AWE_step_failed(Cur, t), t))

\* wait_for returns: the Event was set
AWE_Approved(t) ==
    /\ IsAWE
    /\ tasks[t].pc = "wait"
    /\ evt[tasks[t].req]
    /\ ~Immediate(tasks[t].req)
    /\ Commit(AWE_stretch(AWE_step_completed(Cur, t), t))

\* wait_for raises asyncio.TimeoutError
AWE_WaitTimeout(t) ==
    /\ IsAWE
    /\ tasks[t].pc = "wait"
    /\ due[tasks[t].req]
    /\ ~evt[tasks[t].req] \/ Immediate(tasks[t].req)
    /\ Commit(AWE_stretch(AWE_step_failed(Cur, t), t))

\* one cycle of start_workflow_automation finds an overdue pending request
AWE_Sweep ==
    /\ IsAWE
    /\ \E r \in DOMAIN reqs : reqs[r].status = "pending" /\ due[r]
    /\ Commit(check_approval_timeouts(Cur))

AWE_Submit(r, decision) ==
    /\ IsAWE
    /\ calls < MaxCalls
    /\ Commit(submit_approval_decision([Cur EXCEPT !.calls = @ + 1], r, decision))

AWE_TriggerRollback(w) ==
    /\ IsAWE
    /\ calls < MaxCalls
    /\ Commit(trigger_rollback([Cur EXCEPT !.calls = @ + 1], w))

\* the timeout of a request elapses
TimeElapses(r) ==
    /\ ~due[r]
    /\ \E t \in DOMAIN tasks : tasks[t].pc = "wait" /\ tasks[t].req = r
    /\ due' = [due EXCEPT ![r] = TRUE]
    /\ UNCHANGED <<engine, store, steps, valid, db, reqs, resps, pending, evt,
                   tasks, active, rollbacks, failed, calls, job, outcome,
                   last>>

\* -------------------------------------------------------------------- Init
\* The workflows the creator may have stored: up to MaxSteps steps, each an
\* automated validate_data or process_data step or an approval step, all
\* with the same persisted retry_count (the default 0, or MaxInitRetry);
\* the approval steps of a workflow have the same timeout_minutes, the
\* default 60 or 0 (WorkflowStep constrains neither field), the automated
\* steps the default.
StepKinds == {"validate_data", "process_data", "manager_approval"}

TimeoutMinutes == {0, 60}

StepDef(kind, r0, tm) ==
    [requires_approval |-> (kind = "manager_approval"), action_type |-> kind,
     retry_count |-> r0,
     timeout_minutes |-> IF kind = "manager_approval" THEN tm ELSE 60]

StepLists ==
    UNION {{[i \in 1..n |-> StepDef(ks[i], r0, tm)] :
              ks \in [1..n -> StepKinds], r0 \in {0, MaxInitRetry},
              tm \in TimeoutMinutes} :
           n \in 0..MaxSteps}

\* the row written by the workflow's creator (WorkflowInstance defaults)
NewRow(ss) ==
    [absent |-> FALSE, status |-> "pending", current_step |-> 0, steps |-> ss,
     execution_log |-> <<>>, rollback_data |-> FALSE]

Init ==
    /\ engine \in Engines
    /\ store \in Stores
    /\ \E ss \in StepLists :
          /\ steps = [w \in WorkflowIds |-> IF w = "w1" THEN ss ELSE <<>>]
          /\ db = [w \in WorkflowIds |-> IF w = "w1" THEN NewRow(ss) ELSE NoRecord]
    /\ valid \in [WorkflowIds -> BOOLEAN]
    /\ valid["w2"]
    /\ reqs = <<>>
    /\ resps = <<>>
    /\ pending = {}
    /\ evt = <<>>
    /\ due = <<>>
    /\ tasks = <<>>
    /\ active = [w \in WorkflowIds |-> 0]
    /\ rollbacks = [w \in WorkflowIds |-> 0]
    /\ failed = [w \in WorkflowIds |-> 0]
    /\ calls = 0
    /\ job = NoJob
    /\ outcome = NoOutcome
    /\ last = Call("none", "", 0, "none", FALSE, FALSE)

Decisions == {"approve", "reject"}

\* the ids a caller may submit a decision for: those of the requests made
\* and 0, an id under which no request is ever created
SubmittedIds == 0..Len(reqs)

Next ==
    \/ \E w \in WorkflowIds : WE_Start(w)
    \/ \E t \in DOMAIN tasks : WE_Run(t)
    \/ \E t \in DOMAIN tasks : WE_TaskDone(t)
    \/ \E t \in DOMAIN tasks : WE_Approved(t)
    \/ \E t \in DOMAIN tasks : WE_WaitTimeout(t)
    \/ \E t \in DOMAIN tasks : WE_Retry(t)
    \/ \E t \in DOMAIN tasks : WE_Compensate(t)
    \/ \E t \in DOMAIN tasks : WE_CompensateRaises(t)
    \/ \E r \in SubmittedIds, a \in Decisions : WE_Submit(r, a)
    \/ AWE_ProcessPending
    \/ \E t \in DOMAIN tasks : AWE_Run(t)
    \/ \E t \in DOMAIN tasks : AWE_StepBegin(t)
    \/ \E t \in DOMAIN tasks : AWE_TaskDone(t)
    \/ \E t \in DOMAIN tasks : AWE_Approved(t)
    \/ \E t \in DOMAIN tasks : AWE_WaitTimeout(t)
    \/ AWE_Sweep
    \/ \E r \in SubmittedIds, a \in Decisions : AWE_Submit(r, a)
    \/ \E w \in WorkflowIds : AWE_TriggerRollback(w)
    \/ \E r \in DOMAIN reqs : TimeElapses(r)

Spec == Init /\ [][Next]_vars

\* Two stored workflows: the first of any one step (its timeout positive), the
\* second an automated step followed by an approval step, both with their
\* retries used up, so that a timeout of the wait fails the workflow and
\* rolls both steps back.
OtherSteps ==
    <<StepDef("process_data", MaxRetries - 1, 60),
      StepDef("manager_approval", MaxRetries - 1, 60)>>

PairInit ==
    /\ engine \in Engines
    /\ store \in Stores
    /\ \E ss \in {l \in StepLists : Len(l) = 1 /\ l[1].timeout_minutes > 0} :
          /\ steps = [w \in WorkflowIds |-> IF w = "w1" THEN ss ELSE OtherSteps]
          /\ db = [w \in WorkflowIds |-> NewRow(steps[w])]
    /\ valid \in [WorkflowIds -> BOOLEAN]
    /\ valid["w2"]
    /\ reqs = <<>>
    /\ resps = <<>>
    /\ pending = {}
    /\ evt = <<>>
    /\ due = <<>>
    /\ tasks = <<>>
    /\ active = [w \in WorkflowIds |-> 0]
    /\ rollbacks = [w \in WorkflowIds |-> 0]
    /\ failed = [w \in WorkflowIds |-> 0]
    /\ calls = 0
    /\ job = NoJob
    /\ outcome = NoOutcome
    /\ last = Call("none", "", 0, "none", FALSE, FALSE)

PairSpec == PairInit /\ [][Next]_vars

\* ------------------------------------------------------------ TaskProcessor
\* The values of metadata.original_data, in the order of its keys; the keys
\* are the positions.  "<None>" stands for Python's None.
FieldValues == {"<None>", "", "x"}

\* random.randint(1, 100) of _fraud_detection, around its threshold
RiskScores == {1, 70, 71, 100}

\* action types a step may carry: the four with a handler of their own, the
\* approval steps' type, and other strings
ActionTypes ==
    {"validate_data", "process_data", "fraud_detection", "deploy_system",
     "manager_approval", "Validate_Data", ""}

RECURSIVE Issues(_, _)
Issues(original_data, k) ==
    IF k > Len(original_data) THEN <<>>
    ELSE (IF original_data[k] \in {"<None>", ""} THEN <<k>> ELSE <<>>)
             \o Issues(original_data, k + 1)

validate_data(original_data) ==
    LET issues == Issues(original_data, 1)
    IN  [by |-> "_validate_data",
         value |-> [success |-> issues = <<>>,
                    result |-> [valid |-> issues = <<>>, issues |-> issues,
                                validated_fields |-> Len(original_data)],
                    processed_at |-> "now"]]

process_data(original_data) ==
    [by |-> "_process_data",
     value |-> [success |-> TRUE,
                result |-> [original_data |-> original_data,
                            status |-> "processed"],
                metadata_updated |-> TRUE]]

fraud_detection(risk_score) ==
    LET is_high_risk == risk_score > 70
    IN  [by |-> "_fraud_detection",
         value |-> [success |-> TRUE,
                    result |-> [risk_score |-> risk_score,
                                risk_level |-> IF is_high_risk THEN "high"
                                               ELSE "low",
                                recommendation |->
                                    IF is_high_risk THEN "manual_review"
                                    ELSE "auto_approve"],
                    requires_manual_review |-> is_high_risk]]

deploy_system ==
    [by |-> "_deploy_system",
     value |-> [success |-> TRUE,
                result |-> [environment |-> "production",
                            status |-> "success", version |-> "1.0.0"]]]

generic_task ==
    [by |-> "_generic_task",
     value |-> [success |-> TRUE,
                result |-> [task_completed |-> TRUE, task_type |-> "generic"]]]

\* execute_task had it no branch for deploy_system
TaskProcessor_execute_task_undeployed(action_type, original_data, risk_score) ==
    IF action_type = "validate_data" THEN validate_data(original_data)
    ELSE IF action_type = "process_data" THEN process_data(original_data)
    ELSE IF action_type = "fraud_detection" THEN fraud_detection(risk_score)
    ELSE generic_task

\* TaskProcessor.execute_task: the whole returned dict and the handler that
\* built it (execute_task above is its success field)
TaskProcessor_execute_task(action_type, original_data, risk_score) ==
    IF action_type = "validate_data" THEN validate_data(original_data)
    ELSE IF action_type = "process_data" THEN process_data(original_data)
    ELSE IF action_type = "fraud_detection" THEN fraud_detection(risk_score)
    ELSE IF action_type = "deploy_system" THEN deploy_system
    ELSE generic_task

OriginalData ==
    UNION {[1..n -> FieldValues] : n \in 0..MaxFields}

\* a TaskProcessor by itself, about to be called with any action type and
\* any metadata
TaskInit ==
    /\ job \in [action_type : ActionTypes, original_data : OriginalData]
    /\ outcome = NoOutcome
    /\ engine = "WorkflowEngine"
    /\ store = "DatabaseManager"
    /\ steps = [w \in WorkflowIds |-> <<>>]
    /\ valid = [w \in WorkflowIds |-> TRUE]
    /\ db = [w \in WorkflowIds |-> NoRecord]
    /\ reqs = <<>>
    /\ resps = <<>>
    /\ pending = {}
    /\ evt = <<>>
    /\ due = <<>>
    /\ tasks = <<>>
    /\ active = [w \in WorkflowIds |-> 0]
    /\ rollbacks = [w \in WorkflowIds |-> 0]
    /\ failed = [w \in WorkflowIds |-> 0]
    /\ calls = 0
    /\ last = Call("none", "", 0, "none", FALSE, FALSE)

\* await task_processor.execute_task(action_type, metadata)
ExecuteTask ==
    /\ outcome = NoOutcome
    /\ \E risk_score \in RiskScores :
          outcome' = TaskProcessor_execute_task(job.action_type,
                                                job.original_data, risk_score)
    /\ UNCHANGED <<engine, store, steps, valid, db, reqs, resps, pending, evt,
                   due, tasks, active, rollbacks, failed, calls, job, last>>

TaskSpec == TaskInit /\ [][ExecuteTask]_vars

\* The event loop runs every task that is ready to resume: a step of a task
\* that stays enabled is eventually taken, and the automation loop keeps
\* cycling.  Calls of the API, and the passing of a timeout, are the
\* environment's and need not happen.
TaskStep(t) ==
    /\ t \in DOMAIN tasks
    /\ \/ WE_Run(t) \/ WE_TaskDone(t) \/ WE_Approved(t) \/ WE_WaitTimeout(t)
       \/ WE_Retry(t) \/ WE_Compensate(t) \/ WE_CompensateRaises(t)
       \/ AWE_Run(t) \/ AWE_StepBegin(t) \/ AWE_TaskDone(t)
       \/ AWE_Approved(t) \/ AWE_WaitTimeout(t)

\* ENABLED <<TaskStep(t)>>_vars, from the guards of the steps
CanStep(t) ==
    /\ t \in DOMAIN tasks
    /\ \/ tasks[t].pc \in {"ready", "delay", "exec", "retry_sleep", "comp_sleep"}
       \/ tasks[t].pc = "wait" /\ (evt[tasks[t].req] \/ due[tasks[t].req])

FairSpec ==
    /\ Spec
    /\ WF_vars(AWE_ProcessPending)
    /\ WF_vars(AWE_Sweep)
    /\ \A t \in 1..MaxStarts :
          ([]<>(~CanStep(t))) \/ ([]<><<TaskStep(t)>>_vars)

\* ------------------------------------------------------------------ claims
Finished(t) == tasks[t].pc \in {"done", "crashed"}

Log(w) == db[w].execution_log

HasEvent(w, type, step) ==
    \E n \in DOMAIN Log(w) :
        Log(w)[n].event_type = type /\ Log(w)[n].step = step

CountEvents(w, type) ==
    Cardinality({n \in DOMAIN Log(w) : Log(w)[n].event_type = type})

CompensationEvents ==
    {"data_processing_rollback", "fraud_check_rollback", "deployment_rollback",
     "validation_rollback", "generic_rollback"}

\* the steps compensated according to the log
Compensated(w) ==
    {Log(w)[n].step : n \in {m \in DOMAIN Log(w) :
                                  Log(w)[m].event_type \in CompensationEvents}}

\* a step whose handler fails on every attempt
AlwaysFails(w, i) ==
    /\ ~steps[w][i + 1].requires_approval
    /\ ~execute_task(steps[w][i + 1].action_type, valid[w])

\* k, k-1, ... (n indices)
Descending(k, n) == [j \in 1..n |-> k - j + 1]

\* C1: no two unfinished execution tasks exist for the same workflow id.
C1_OneExecutionPerWorkflow ==
    \A t1, t2 \in DOMAIN tasks :
        (t1 # t2 /\ tasks[t1].wid = tasks[t2].wid)
            => (Finished(t1) \/ Finished(t2))

\* C2: in WorkflowEngine, once the only execution of a workflow has ended
\* at a step that was attempted and fails on every attempt (its persisted
\* retry_count being 0), that step's retry_count is 3, FAILED was persisted
\* exactly once and execute_rollback was invoked exactly once.
C2_ThreeFailuresOneRollback ==
    \A t \in DOMAIN tasks :
        LET w == tasks[t].wid
            i == tasks[t].current_step
        IN  (/\ IsWE
             /\ Len(tasks) = 1
             /\ Finished(t)
             /\ i < Len(steps[w])
             /\ AlwaysFails(w, i)
             /\ db[w].steps[i + 1].retry_count = 0
             /\ HasEvent(w, "task_failed", i))
            => (/\ tasks[t].retry[i + 1] = MaxRetries
                /\ failed[w] = 1
                /\ rollbacks[w] = 1)

\* C3: a workflow whose persisted status is COMPLETED, or whose log holds
\* workflow_completed, has a step_completed event for every one of its steps.
C3_CompletedOnlyIfAllStepsSucceeded ==
    \A w \in WorkflowIds :
        (IsRow(db[w]) /\ (db[w].status = "completed"
                          \/ CountEvents(w, "workflow_completed") > 0))
            => \A i \in 0..(Len(steps[w]) - 1) : HasEvent(w, "step_completed", i)

\* C4: in WorkflowEngine, once the only execution of a workflow of three
\* automated steps whose handlers all succeed has ended, the persisted
\* status is COMPLETED and the log holds exactly one workflow_completed.
C4_ThreeStepsComplete ==
    \A t \in DOMAIN tasks :
        LET w == tasks[t].wid
        IN  (/\ IsWE
             /\ Len(tasks) = 1
             /\ Finished(t)
             /\ Len(steps[w]) = 3
             /\ \A i \in 1..3 :
                   /\ ~steps[w][i].requires_approval
                   /\ execute_task(steps[w][i].action_type, valid[w]))
            => (/\ db[w].status = "completed"
                /\ CountEvents(w, "workflow_completed") = 1)

\* C5: while the persisted status of a workflow is not terminal, no step
\* of the system decreases its persisted current_step.
C5_CurrentStepMonotone ==
    [][\A w \in WorkflowIds :
          (IsRow(db[w]) /\ db[w].status \notin Terminal)
              => db'[w].current_step >= db[w].current_step]_vars

\* C6: a decision submitted for a request that is already resolved returns
\* ConcurrencyError, leaves the request table as it was and records no
\* response.
C6_SecondDecisionRejected ==
    [][(calls' = calls + 1 /\ last'.op = "submit" /\ last'.resolved)
          => (/\ last'.result = "ConcurrencyError"
              /\ reqs' = reqs
              /\ resps' = resps)]_vars

\* C7: the status of an approval request changes at most once: it leaves
\* pending for approved, rejected, timeout or cancelled and never changes
\* again, whichever of the decision and the sweep comes first.
C7_RequestStatusOneWay ==
    [][\A r \in DOMAIN reqs :
          /\ reqs[r].status # "pending" => reqs'[r].status = reqs[r].status
          /\ reqs'[r].status \in {"pending", "approve", "reject", "timeout",
                                   "cancelled"}]_vars

C10_ApprovalTimeoutRollsBack ==
    \A t \in DOMAIN tasks :
        LET w == tasks[t].wid
        IN  (/\ IsWE
             /\ Len(tasks) = 1
             /\ Finished(t)
             /\ Len(steps[w]) = 2
             /\ steps[w][1].action_type = "validate_data"
             /\ valid[w]
             /\ steps[w][2].requires_approval
             /\ resps = <<>>)
            => (/\ failed[w] >= 1
                /\ CountEvents(w, "rollback_started") > 0
                /\ CountEvents(w, "rollback_completed") > 0
                /\ Compensated(w) = {0})

\* the number of events of a type logged for a step in a workflows table
EventCount(table, w, type, step) ==
    Cardinality({n \in DOMAIN table[w].execution_log :
                    /\ table[w].execution_log[n].event_type = type
                    /\ table[w].execution_log[n].step = step})

\* C11: in WorkflowEngine, once the only execution of a workflow has ended
\* after a compensation handler raised during its execute_rollback (the
\* rollback_failed event is in the log), the handlers of all the indices
\* from current_step down to 0 were invoked and the persisted status is
\* ROLLED_BACK.
C11_RaisingCompensationSkipped ==
    \A t \in DOMAIN tasks :
        LET w == tasks[t].wid
            k == tasks[t].current_step
        IN  (/\ IsWE
             /\ Len(tasks) = 1
             /\ Finished(t)
             /\ CountEvents(w, "rollback_failed") > 0)
            => (/\ tasks[t].comps = Descending(k, k + 1)
                /\ db[w].status = "rolled_back")

\* C12: no two execution tasks of the same workflow are inside
\* execute_rollback at the same time: a second execute_rollback that begins
\* while the first is in progress invokes no compensation handler.
C12_RollbackNotReentrant ==
    \A t1, t2 \in DOMAIN tasks :
        (t1 # t2 /\ tasks[t1].wid = tasks[t2].wid)
            => ~(tasks[t1].pc = "comp_sleep" /\ tasks[t2].pc = "comp_sleep")

\* C13: start_workflow on an id that has no row returns ValueError (not
\* found) and changes neither the workflows table, nor the tasks, nor the
\* registry, nor the approval tables.
C13_StartAbsentNoEffect ==
    [][(calls' = calls + 1 /\ last'.op = "start" /\ ~IsRow(db[last'.wid]))
          => (/\ last'.result = "ValueError"
              /\ db' = db
              /\ tasks' = tasks
              /\ active' = active
              /\ reqs' = reqs
              /\ pending' = pending)]_vars

\* start_workflow was called on the absent id and nothing was started
C13_Witness ==
    /\ last.op = "start"
    /\ last.wid = "w2"
    /\ ~IsRow(db["w2"])
    /\ last.result = "ValueError"
    /\ calls > 0
    /\ active["w2"] = 0

\* the task, waiting on its approval request, resumes in this step
Resumes(t) == tasks[t].pc = "wait" /\ tasks'[t] # tasks[t]

\* the task does not get past the step it is at in this step: no
\* step_completed is logged for it, the index stays, and the task does not
\* complete the workflow
StaysAtStep(t) ==
    LET w == tasks[t].wid
        i == tasks[t].current_step
    IN  /\ EventCount(db', w, "step_completed", i)
              = EventCount(db, w, "step_completed", i)
        /\ tasks'[t].current_step = i
        /\ tasks'[t].status # "completed"
        /\ db'[w].status = "completed" => db[w].status = "completed"

\* C14: when a task waiting on an approval request resumes while the
\* request's status is reject, no step_completed is logged for its step, it
\* does not move to the next step and it does not complete the workflow.
C14_RejectFailsStep ==
    [][\A t \in DOMAIN tasks :
          (Resumes(t) /\ reqs[tasks[t].req].status = "reject")
              => StaysAtStep(t)]_vars

\* C15: in AutomatedWorkflowEngine, when a task waiting on an approval
\* request on which no decision was made resumes after the manual rollback
\* trigger has marked its workflow ROLLED_BACK, the request is in a terminal
\* status (no longer pending) and the task takes the failure path: it does
\* not get past its step.
C15_RollbackCancelsWait ==
    [][\A t \in DOMAIN tasks :
          (/\ IsAWE
           /\ Resumes(t)
           /\ db[tasks[t].wid].status = "rolled_back"
           /\ reqs[tasks[t].req].status \notin Decisions)
              => (/\ reqs'[tasks[t].req].status # "pending"
                  /\ StaysAtStep(t))]_vars

\* C16: a row whose status is COMPLETED, ROLLED_BACK, CANCELLED or FAILED
\* keeps its status and its current_step in every step of the system, the
\* transition from FAILED to ROLLED_BACK excepted.
C16_TerminalIsFinal ==
    [][\A w \in WorkflowIds :
          (IsRow(db[w]) /\ db[w].status \in Terminal)
              => /\ db'[w].current_step = db[w].current_step
                 /\ \/ db'[w].status = db[w].status
                    \/ db[w].status = "failed" /\ db'[w].status = "rolled_back"]_vars

\* C17: no two approval requests of the same workflow and step are pending
\* at the same time.
C17_OnePendingRequestPerStep ==
    \A r1, r2 \in DOMAIN reqs :
        (/\ r1 # r2
         /\ reqs[r1].workflow_id = reqs[r2].workflow_id
         /\ reqs[r1].step = reqs[r2].step)
            => ~(reqs[r1].status = "pending" /\ reqs[r2].status = "pending")

\* C18: in AutomatedWorkflowEngine, when a task waiting on an approval
\* request resumes while the request's status is timeout (the sweep marked
\* it), the step fails: the task does not get past it and its status becomes
\* FAILED.
C18_SweepTimeoutFailsStep ==
    [][\A t \in DOMAIN tasks :
          (IsAWE /\ Resumes(t) /\ reqs[tasks[t].req].status = "timeout")
              => (StaysAtStep(t) /\ tasks'[t].status = "failed")]_vars

\* every automated step of the workflow succeeds
AutomatedStepsSucceed(w) ==
    \A i \in DOMAIN steps[w] :
        \/ steps[w][i].requires_approval
        \/ IF IsWE THEN execute_task(steps[w][i].action_type, valid[w])
           ELSE execute_automated_task(steps[w][i].action_type)

\* every approval request made so far was approved before its timeout
AllApproved == \A r \in DOMAIN reqs : reqs[r].status = "approve" /\ ~due[r]

\* the only execution of the workflow has got its approvals so far, and no
\* step of it was failed by an exception (a raising notification)
ApprovedSoFar(w) ==
    /\ IsRow(db[w])
    /\ CountEvents(w, "step_execution_error") = 0
    /\ Len(tasks) = 1
    /\ tasks[1].wid = w
    /\ AutomatedStepsSucceed(w)
    /\ reqs # <<>>
    /\ AllApproved

\* C19: from a state in which the only execution of a workflow whose
\* automated steps all succeed has had every approval request approved
\* before its timeout, the workflow's persisted status eventually is
\* COMPLETED, unless a further request is left undecided or not approved,
\* the workflow is started again, or a rollback is triggered.
C19_ApprovedWorkflowCompletes ==
    \A w \in WorkflowIds :
        ApprovedSoFar(w)
            ~> \/ IsRow(db[w]) /\ db[w].status = "completed"
               \/ ~AllApproved
               \/ Len(tasks) # 1
               \/ last.op = "rollback"

\* C20: while a task is running the handler of step i or waiting on its
\* approval, the persisted current_step of its workflow is i.
C20_PersistedIndexIsCurrent ==
    \A t \in DOMAIN tasks :
        tasks[t].pc \in {"exec", "wait"}
            => db[tasks[t].wid].current_step = tasks[t].current_step

\* C21: a raising notification changes no outcome: in the step in which an
\* approval request is created, the creating task goes on to wait on it;
\* in the step in which rollback_completed is logged for a workflow, no
\* rollback_failed event is logged for it and its persisted status is
\* ROLLED_BACK.
C21_NotifierFailureHarmless ==
    [][/\ Len(reqs') > Len(reqs)
          => \E t \in DOMAIN tasks' :
                 tasks'[t].pc = "wait" /\ tasks'[t].req = Len(reqs')
       /\ \A w \in WorkflowIds :
             (/\ IsRow(db[w])
              /\ EventCount(db', w, "rollback_completed", 0 - 1)
                    > EventCount(db, w, "rollback_completed", 0 - 1))
                 => (/\ EventCount(db', w, "rollback_failed", 0 - 1)
                           = EventCount(db, w, "rollback_failed", 0 - 1)
                     /\ db'[w].status = "rolled_back")]_vars

\* the events by which the engines record the end of a wait on an approval
\* request: approval_timeout, and step_completed for the approved step
ResolutionEvents(status) ==
    IF status = "timeout" THEN {"approval_timeout", "workflow_failed"}
    ELSE IF status = "approve" THEN {"step_completed"}
    ELSE {"approval_timeout", "step_completed", "workflow_failed"}

\* C22: a row whose persisted status is COMPLETED, FAILED or ROLLED_BACK has
\* in its persisted log the event of that transition (workflow_completed,
\* workflow_failed, rollback_completed), and the log of the workflow of a
\* request whose status is approve, reject or timeout has an event recording
\* the resolution of that request's step.
C22_TransitionsAreLogged ==
    /\ \A w \in WorkflowIds :
          IsRow(db[w]) =>
              /\ db[w].status = "completed"
                    => CountEvents(w, "workflow_completed") > 0
              /\ db[w].status = "failed"
                    => CountEvents(w, "workflow_failed") > 0
              /\ db[w].status = "rolled_back"
                    => CountEvents(w, "rollback_completed") > 0
    /\ \A r \in DOMAIN reqs :
          reqs[r].status \in {"approve", "reject", "timeout"}
              => \E type \in ResolutionEvents(reqs[r].status) :
                     HasEvent(reqs[r].workflow_id, type, reqs[r].step)

\* C23: no approval request made for a step whose timeout is less than or
\* equal to 0 is persisted, and no Event is registered for one.
C23_NonPositiveTimeoutLeavesNoTrace ==
    /\ \A r \in DOMAIN reqs : ~Immediate(r)
    /\ \A r \in pending : ~Immediate(r)

\* C24: a decision submitted for a request id that was never created does
\* not return normally and changes nothing: no response is recorded, no
\* request status is written and no Event is set.
C24_UnknownRequestRejected ==
    [][(calls' = calls + 1 /\ last'.op = "submit"
          /\ last'.req \notin DOMAIN reqs)
          => (/\ last'.result # "ok"
              /\ resps' = resps
              /\ reqs' = reqs
              /\ evt' = evt
              /\ pending' = pending)]_vars

\* C25: an execution is launched only for a workflow whose persisted status
\* is PENDING, and a start call for a row in any other status leaves the
\* row's status as it is.
C25_StartOnlyFromPending ==
    [][/\ Len(tasks') > Len(tasks)
          => db[tasks'[Len(tasks')].wid].status = "pending"
       /\ \A w \in WorkflowIds :
             (/\ calls' = calls + 1
              /\ last'.op = "start"
              /\ last'.wid = w
              /\ IsRow(db[w])
              /\ db[w].status # "pending")
                 => db'[w].status = db[w].status]_vars

\* C26: in the step in which FAILED is persisted for a workflow, a
\* workflow_failed event carrying the current step index of one of its
\* tasks is appended to its log and execute_rollback is invoked once for it.
C26_FailureLoggedAndRolledBack ==
    [][\A w \in WorkflowIds :
          failed'[w] > failed[w]
              => (/\ \E t \in DOMAIN tasks' :
                        /\ tasks'[t].wid = w
                        /\ EventCount(db', w, "workflow_failed",
                                      tasks'[t].current_step)
                              > EventCount(db, w, "workflow_failed",
                                           tasks'[t].current_step)
                  /\ rollbacks'[w] = rollbacks[w] + 1)]_vars

\* C27: in WorkflowEngine, when a task resumes from the wait of a retried
\* approval step whose request was approved, step_completed is logged for
\* the step and the task goes on to the next step if there is one.
C27_RetrySuccessContinues ==
    [][\A t \in DOMAIN tasks :
          LET w == tasks[t].wid
              i == tasks[t].current_step
          IN  (/\ IsWE
               /\ Resumes(t)
               /\ tasks[t].retrying
               /\ evt[tasks[t].req]
               /\ ~Immediate(tasks[t].req))
                  => (/\ EventCount(db', w, "step_completed", i)
                            > EventCount(db, w, "step_completed", i)
                      /\ i + 1 < Len(steps[w])
                            => tasks'[t].current_step = i + 1)]_vars

\* the positions of the events of the given types in a log
Positions(L, types) == {n \in DOMAIN L : L[n].event_type \in types}

\* workflow_failed precedes rollback_started, rollback_started precedes
\* every compensation event, and rollback_completed follows all of them
RollbackOrdered(L) ==
    /\ \A s \in Positions(L, {"rollback_started"}) :
          \E f \in Positions(L, {"workflow_failed"}) : f < s
    /\ \A p \in Positions(L, CompensationEvents) :
          \E s \in Positions(L, {"rollback_started"}) : s < p
    /\ \A c \in Positions(L, {"rollback_completed"}) :
          /\ \E s \in Positions(L, {"rollback_started"}) : s < c
          /\ \A p \in Positions(L, CompensationEvents) : p < c

\* C28: after every step that writes the row of a workflow that has had
\* one execution, its log has workflow_failed before rollback_started,
\* rollback_started before every compensation event and rollback_completed
\* after all of them; and in the step in which rollback_completed is
\* logged for a workflow, its persisted status is ROLLED_BACK.
C28_RollbackLogOrder ==
    [][\A w \in WorkflowIds :
          (IsRow(db'[w]) /\ db'[w] # db[w]) =>
              /\ Len(tasks') = 1 => RollbackOrdered(db'[w].execution_log)
              /\ EventCount(db', w, "rollback_completed", 0 - 1)
                    > EventCount(db, w, "rollback_completed", 0 - 1)
                    => db'[w].status = "rolled_back"]_vars

\* the only execution of a workflow was rolled back after a failure: two
\* steps or more were compensated and rollback_completed was logged
C28_Witness ==
    \E w \in WorkflowIds :
        /\ IsRow(db[w])
        /\ Len(tasks) = 1
        /\ tasks[1].wid = w
        /\ CountEvents(w, "workflow_failed") = 1
        /\ CountEvents(w, "rollback_started") = 1
        /\ Cardinality(Positions(Log(w), CompensationEvents)) >= 2
        /\ CountEvents(w, "rollback_completed") = 1
        /\ db[w].status = "rolled_back"

\* C29: once the only execution of a workflow has ended with its
\* execute_rollback having set ROLLED_BACK and the snapshot on the workflow
\* object and no rollback_failed logged, the stored row has status
\* ROLLED_BACK and a rollback_data that is not empty.
C29_SnapshotPersisted ==
    \A t \in DOMAIN tasks :
        LET w == tasks[t].wid
        IN  (/\ Len(tasks) = 1
             /\ Finished(t)
             /\ tasks[t].status = "rolled_back"
             /\ tasks[t].rollback_data
             /\ CountEvents(w, "rollback_failed") = 0)
            => (/\ db[w].status = "rolled_back"
                /\ db[w].rollback_data)

\* C30: in WorkflowEngine, an approve decision submitted for the pending
\* request a task is waiting on, before the timeout of the wait, sets the
\* Event the task waits on; and a task that resumes from a wait whose Event
\* was set by an approve logs no approval_timeout for the step and counts
\* no failure of it.
C30_ApproveNeverLost ==
    [][\A t \in DOMAIN tasks :
          LET r == tasks[t].req
              w == tasks[t].wid
              i == tasks[t].current_step
          IN  (IsWE /\ tasks[t].pc = "wait") =>
                  /\ (/\ calls' = calls + 1
                      /\ last'.op = "submit"
                      /\ last'.req = r
                      /\ reqs[r].status = "pending"
                      /\ reqs'[r].status = "approve"
                      /\ ~due[r])
                         => evt'[r]
                  /\ (/\ Resumes(t)
                      /\ evt[r]
                      /\ reqs[r].status = "approve"
                      /\ ~Immediate(r))
                         => (/\ EventCount(db', w, "approval_timeout", i)
                                   = EventCount(db, w, "approval_timeout", i)
                             /\ tasks'[t].retry[i + 1]
                                   = tasks[t].retry[i + 1])]_vars

\* a task has resumed from the wait on a request that was approved while it
\* waited: the step is logged as completed and no timeout is logged for it
C30_Witness ==
    \E r \in DOMAIN reqs :
        /\ IsWE
        /\ reqs[r].status = "approve"
        /\ evt[r]
        /\ Len(resps) = 1
        /\ resps[1].request = r
        /\ HasEvent(reqs[r].workflow_id, "step_completed", reqs[r].step)
        /\ ~HasEvent(reqs[r].workflow_id, "approval_timeout", reqs[r].step)

\* a is an initial segment of b
IsPrefix(a, b) == Len(a) <= Len(b) /\ SubSeq(b, 1, Len(a)) = a

\* C31: in every step of the system the persisted execution_log of each
\* workflow keeps its former value as a prefix: no event is dropped,
\* overwritten or reordered.
C31_LogAppendOnly ==
    [][\A w \in WorkflowIds :
          (IsRow(db[w]) /\ db'[w] # db[w])
              => (/\ IsRow(db'[w])
                  /\ IsPrefix(db[w].execution_log,
                              db'[w].execution_log))]_vars

\* two executions of one workflow have interleaved their writes of the log
\* with those of a rollback
C31_Witness ==
    \E w \in WorkflowIds :
        /\ IsRow(db[w])
        /\ Len(tasks) = 2
        /\ tasks[1].wid = w
        /\ tasks[2].wid = w
        /\ CountEvents(w, "workflow_started") = 2
        /\ CountEvents(w, "step_started") >= 2
        /\ CountEvents(w, "rollback_started") >= 1
        /\ CountEvents(w, "step_completed") >= 1

\* ---------------------------------------------------------------------------
\* C32: a step of the execution task of workflow A, a start, a decision on a
\* request of workflow A or a manual rollback of workflow A leaves the
\* persisted record (status, current_step, steps' retry_count,
\* execution_log) of every other workflow B as it was, whatever the
\* interleaving of the two workflows' tasks.
OthersUnchanged(A) == \A B \in WorkflowIds \ {A} : db'[B] = db[B]

C32_OtherWorkflowsUntouched ==
    [][/\ \A t \in DOMAIN tasks :
             tasks'[t] # tasks[t] => OthersUnchanged(tasks[t].wid)
       /\ (calls' # calls /\ last'.op \in {"start", "rollback"})
             => OthersUnchanged(last'.wid)
       /\ (calls' # calls /\ last'.op = "submit" /\ last'.req \in DOMAIN reqs)
             => OthersUnchanged(reqs[last'.req].workflow_id)]_vars

\* both workflows have run concurrently: each has a task, both records have
\* been written to, and one of them has been rolled back or has failed
C32_Witness ==
    /\ \E t, u \in DOMAIN tasks :
          /\ tasks[t].wid = "w1" /\ tasks[u].wid = "w2"
          /\ tasks[t].pc # "ready" /\ tasks[u].pc # "ready"
    /\ \A w \in WorkflowIds : IsRow(db[w]) /\ db[w].status # "pending"
    /\ \E w \in WorkflowIds : db[w].status \in {"failed", "rolled_back"}
    /\ \E w \in WorkflowIds : db[w].execution_log # <<>>

\* ---------------------------------------------------------------------------
\* C33: in WorkflowEngine an exception raised inside a step (the approval
\* gate raising after it has stored the request, so that the request is
\* created and nobody waits on it) does not leave the execution task: in
\* that same stretch step_execution_error is logged for the workflow, the
\* task has not died, and the step is handled as a failed step is: a first
\* attempt has its retry_count incremented and is either retried
\* (step_retry logged, the task sleeping before the retry) or, its retries
\* used up, fails the workflow (workflow_failed logged); the result of a
\* retry is dropped and the task leaves the loop.
GateRaised(t) ==
    /\ Len(reqs') = Len(reqs) + 1
    /\ tasks'[t] # tasks[t]
    /\ ~(tasks'[t].pc = "wait" /\ tasks'[t].req = Len(reqs'))

Logged(w, type) ==
    Cardinality({n \in DOMAIN db'[w].execution_log :
                    db'[w].execution_log[n].event_type = type})
        - CountEvents(w, type)

C33_StepExceptionAbsorbed ==
    [][IsWE =>
         \A t \in DOMAIN tasks :
             GateRaised(t) =>
                 LET w == tasks[t].wid
                     i == tasks'[t].current_step
                 IN  /\ Logged(w, "step_execution_error") = 1
                     /\ tasks'[t].pc # "crashed"
                     /\ IF tasks'[t].retrying
                        THEN /\ tasks'[t].retry = tasks[t].retry
                             /\ tasks'[t].pc = "done"
                        ELSE /\ tasks'[t].retry[i + 1] = tasks[t].retry[i + 1] + 1
                             /\ IF tasks'[t].retry[i + 1] < MaxRetries
                                THEN /\ Logged(w, "step_retry") = 1
                                     /\ tasks'[t].pc = "retry_sleep"
                                ELSE /\ Logged(w, "workflow_failed") = 1
                                     /\ tasks'[t].status # "running"]_vars

\* the gate of a first attempt has raised and the step is about to be
\* retried: a stored request nobody waits on, step_execution_error and
\* step_retry in the log, the task asleep before its retry
C33_Witness ==
    /\ IsWE
    /\ \E t \in DOMAIN tasks :
          /\ tasks[t].pc = "retry_sleep"
          /\ CountEvents(tasks[t].wid, "step_execution_error") = 1
          /\ CountEvents(tasks[t].wid, "step_retry") = 1
          /\ \E r \in DOMAIN reqs :
                /\ reqs[r].workflow_id = tasks[t].wid
                /\ reqs[r].status = "pending"
                /\ r \in pending

\* ---------------------------------------------------------------------------
\* C34: saving a record whose id is already stored succeeds and replaces the
\* record, so logging an event for a stored workflow extends its persisted
\* execution_log by that event and raises nothing: a start of a stored
\* workflow returns normally with workflow_started appended to the log, and
\* no execution task is ever ended by an exception.
C34_SaveIsUpsert ==
    [][/\ (calls' # calls /\ last'.op = "start" /\ IsRow(db[last'.wid]))
             => /\ last'.result = "ok"
                /\ db'[last'.wid].execution_log
                      = Append(db[last'.wid].execution_log,
                               Event("workflow_started", 0 - 1))
       /\ \A t \in DOMAIN tasks' : tasks'[t].pc # "crashed"]_vars

\* ---------------------------------------------------------------------------
\* the ids approval requests can get: every task makes at most one request
\* for each of its steps and one more for the step it retries
RequestIds == 1..(MaxWork + MaxStarts)

\* the request is listed by get_pending_approvals
IsPending(r) == r \in DOMAIN reqs /\ reqs[r].status = "pending"

\* C35: a request whose timeout has elapsed while it was pending eventually
\* is no longer pending in the Store (and so is no longer listed among the
\* pending approvals), whether its waiter timed out or the sweep found it.
C35_RequestLeavesPending ==
    \A r \in RequestIds : (IsPending(r) /\ due[r]) ~> ~IsPending(r)

\* ---------------------------------------------------------------------------
\* C36: execute_task gives validate_data, process_data, fraud_detection and
\* deploy_system each to its own handler and every other action type to the
\* generic handler; what it returns has a success field that is a boolean,
\* and what the generic handler returns has success = True.
OwnHandler ==
    [validate_data |-> "_validate_data", process_data |-> "_process_data",
     fraud_detection |-> "_fraud_detection", deploy_system |-> "_deploy_system"]

C36_DispatchByActionType ==
    outcome # NoOutcome =>
        /\ outcome.by = IF job.action_type \in DOMAIN OwnHandler
                        THEN OwnHandler[job.action_type]
                        ELSE "_generic_task"
        /\ "success" \in DOMAIN outcome.value
        /\ outcome.value.success \in BOOLEAN
        /\ outcome.by = "_generic_task" => outcome.value.success

\* a call with an action type that has no handler of its own has returned
\* from the generic handler
C36_Witness ==
    /\ outcome # NoOutcome
    /\ job.action_type \notin DOMAIN OwnHandler
    /\ outcome.by = "_generic_task"
    /\ outcome.value.success

\* ---------------------------------------------------------------------------
\* C37: when the wait on a request returns, with a decision or by timeout,
\* the request's id is no longer a key of the in-flight waiter map
\* (pending_approvals / approval_events).
C37_WaiterMapCleared ==
    [][\A t \in DOMAIN tasks :
          (/\ tasks[t].pc = "wait"
           /\ tasks'[t].pc # "wait" \/ tasks'[t].req # tasks[t].req)
              => tasks[t].req \notin pending']_vars

\* ---------------------------------------------------------------------------
\* C38: a workflow id is a key of active_workflows exactly while an
\* execution task of that workflow has been created and has not ended
\* (by completion, failure or exception).
C38_RegistryTracksRunningTasks ==
    \A w \in WorkflowIds :
        active[w] # 0
            <=> \E t \in DOMAIN tasks : tasks[t].wid = w /\ ~Finished(t)

\* ---------------------------------------------------------------------------
\* the task is the only execution of its workflow
OnlyRun(t) ==
    \A u \in DOMAIN tasks : tasks[u].wid = tasks[t].wid => u = t

\* the steps of the task the task has retried
Retried(t) == {i \in DOMAIN tasks[t].retry : tasks[t].retry[i] > 0}

====
